---- MODULE Spec2Model ----
(***************************************************************************)
(* Model of the raster post-processing layer of the AA toolbox:            *)
(*   - the coordinate normalizer of aatoolbox/utils/raster.py              *)
(*     (set_time_dim, correct_calendar, invert_coordinates,                *)
(*     change_longitude_range of AatRasterMixin),                          *)
(*   - compute_raster_statistics of AatRasterArray,                        *)
(*   - the ensemble assembly of aatoolbox/datasources/glofas/forecast.py.  *)
(*                                                                         *)
(* A raster is a record                                                    *)
(*   lon, lat : the coordinate sequences of the x and y dimension,         *)
(*   data     : data[i][j] is the cell stored at row i (lat[i]) and        *)
(*              column j (lon[j]); a cell is named by the coordinates it   *)
(*              had when the raster was loaded, so a move is visible,      *)
(*   dims     : the names of the non-spatial dimensions,                   *)
(*   attrs    : the attribute dictionary of each non-spatial coordinate,   *)
(*   tdim     : the _t_dim of the object's aat accessor,                   *)
(*   declared : whether set_time_dim has assigned that _t_dim (a record of  *)
(*              line 113 having run on this object's accessor).            *)
(***************************************************************************)
EXTENDS Integers, Sequences, FiniteSets, TLC

VARIABLES obj, ret, pre, lastOp, lastMode, lastArg, err,
          sIn, sPc, sQueue, df_list, sResult, sErr, sLog, sClips,
          aIn, aPc, ds_list, aResult, aErr

normVars == <<obj, ret, pre, lastOp, lastMode, lastArg, err>>

statVars == <<sIn, sPc, sQueue, df_list, sResult, sErr, sLog, sClips>>

asmVars == <<aIn, aPc, ds_list, aResult, aErr>>

(* ------------------------------ bounds --------------------------------- *)
MaxLon == 2
MaxLat == 2
MaxRows == 2
MaxCombos == 2
MaxMembers == 3
MaxLabel == 3

LonValues == {-170, 0, 5, 199, 360}
LatValues == {87, 90}
DimNames == {"t", "T", "time", "F"}
NoDim == "None"
CalendarValues == {"360", "standard"}
UnitsValues == {<<"months", "since", "1960-01-01">>, <<"days", "since", "1960-01-01">>}

(* ------------------------------ helpers -------------------------------- *)
Range(s) == {s[i] : i \in DOMAIN s}

InjSeqs(S, n) == {s \in UNION {[1..k -> S] : k \in 1..n} :
                    \A i, j \in DOMAIN s : i # j => s[i] # s[j]}

Reverse(s) == [i \in 1..Len(s) |-> s[Len(s) + 1 - i]]

SeqMax(s) == CHOOSE m \in Range(s) : \A v \in Range(s) : v <= m

SeqMin(s) == CHOOSE m \in Range(s) : \A v \in Range(s) : m <= v

SortAsc(s) == SortSeq(s, LAMBDA a, b : a < b)

ContainsSeq(s, sub) == \E k \in 0..(Len(s) - Len(sub)) :
                          \A i \in 1..Len(sub) : s[k + i] = sub[i]

(* ----------------------- wrapping and copying -------------------------- *)
DefaultTimeDims == <<"t", "T", "time">>

RECURSIVE InferFrom(_, _, _)
InferFrom(dims, k, cur) ==
  IF k > Len(DefaultTimeDims) THEN cur
  ELSE InferFrom(dims, k + 1,
                 IF DefaultTimeDims[k] \in dims THEN DefaultTimeDims[k] ELSE cur)

\* the first of the default names that is a dimension, not the last
InferTDimFirst(dims) ==
  IF "t" \in dims THEN "t" ELSE IF "T" \in dims THEN "T"
  ELSE IF "time" \in dims THEN "time" ELSE NoDim

InferTDim(dims) == InferFrom(dims, 1, NoDim)

\* A new xarray object gets a new aat accessor the first time .aat is read:
\* __init__ runs again and _t_dim is inferred from the dimension names.
NewObject(r) == [r EXCEPT !.tdim = InferTDim(r.dims), !.declared = FALSE]

\* rioxarray's _get_obj: the object itself in in-place mode, else a deep copy
\* (the copy keeps the rio attributes, it is a new object for aat).
GetObj(self, inplace) == IF inplace THEN self ELSE NewObject(self)

AllDims(r) == r.dims \cup {"lat", "lon"}

\* What a call leaves: the receiver, the returned value (<<>> is None, else
\* <<raster>>) and the exception raised ("none" when the call returns).
Outcome(self, returned, e) == [self |-> self, ret |-> returned, err |-> e]

Returns(inplace, data_obj) == IF inplace THEN <<>> ELSE <<data_obj>>

(* -------------------------------- t_dim -------------------------------- *)
\* the t_dim property: DimensionError when _t_dim is None
read_t_dim(self) ==
  IF self.tdim = NoDim THEN [err |-> "DimensionError", value |-> NoDim]
  ELSE [err |-> "none", value |-> self.tdim]

(* ----------------------------- set_time_dim ---------------------------- *)
set_time_dimUnchecked(self, t_dim, inplace) ==
  LET data_obj == GetObj(self, inplace)
      res == [data_obj EXCEPT !.tdim = t_dim, !.declared = TRUE]
  IN Outcome(IF inplace THEN res ELSE self, Returns(inplace, res), "none")

set_time_dim(self, t_dim, inplace) ==
  LET data_obj == GetObj(self, inplace) IN
  IF t_dim \notin AllDims(data_obj)
    THEN Outcome(self, <<>>, "DimensionError")
    ELSE LET res == [data_obj EXCEPT !.tdim = t_dim, !.declared = TRUE] IN
         Outcome(IF inplace THEN res ELSE self, Returns(inplace, res), "none")

(* --------------------------- correct_calendar -------------------------- *)
DictSet(a, key, val) == [k \in DOMAIN a \cup {key} |-> IF k = key THEN val ELSE a[k]]

CorrectAttrs(a) ==
  IF "calendar" \in DOMAIN a /\ a["calendar"] = "360"
    THEN DictSet(a, "calendar", "360_day")
  ELSE IF "units" \in DOMAIN a /\ ContainsSeq(a["units"], <<"months", "since">>)
    THEN DictSet(a, "calendar", "360_day")
  ELSE a

\* self.t_dim raises DimensionError when _t_dim is None; the attributes are
\* those of the coordinate data_obj[self.t_dim].
correct_calendar(self, inplace) ==
  LET data_obj == GetObj(self, inplace) IN
  IF read_t_dim(self).err # "none"
    THEN Outcome(self, <<>>, read_t_dim(self).err)
    ELSE LET res == [data_obj EXCEPT !.attrs[read_t_dim(self).value] = CorrectAttrs(@)] IN
         Outcome(IF inplace THEN res ELSE self, Returns(inplace, res), "none")

(* -------------------------- invert_coordinates ------------------------- *)
CheckCoordsInvertedLatAscending(r) ==
  <<r.lon[1] > r.lon[Len(r.lon)], r.lat[1] > r.lat[Len(r.lat)]>>

CheckCoordsInvertedAlways(r) == <<TRUE, TRUE>>

CheckCoordsInverted(r) ==
  <<r.lon[1] > r.lon[Len(r.lon)], r.lat[1] < r.lat[Len(r.lat)]>>

PosOf(s, v) == CHOOSE i \in DOMAIN s : s[i] = v

\* DataArray.reindex(inv_dict): a new object that holds, at every label asked
\* for along a dimension of inv_dict, the values the old object holds at that
\* label; a dimension that is not in inv_dict keeps its positions.
Reindex(r, inv) ==
  LET newlon == IF inv[1] THEN Reverse(r.lon) ELSE r.lon
      newlat == IF inv[2] THEN Reverse(r.lat) ELSE r.lat
      col(j) == IF inv[1] THEN PosOf(r.lon, newlon[j]) ELSE j
      row(i) == IF inv[2] THEN PosOf(r.lat, newlat[i]) ELSE i
  IN NewObject([r EXCEPT !.lon = newlon,
                         !.lat = newlat,
                         !.data = [i \in DOMAIN newlat |->
                                     [j \in DOMAIN newlon |-> r.data[row(i)][col(j)]]]])

\* data_obj = data_obj.reindex(inv_dict) rebinds the local name only: the
\* receiver is never assigned.
invert_coordinates(self, inplace) ==
  LET data_obj == GetObj(self, inplace)
      inv == CheckCoordsInverted(self)
      res == IF inv[1] \/ inv[2] THEN Reindex(data_obj, inv) ELSE data_obj
  IN Outcome(self, Returns(inplace, res), "none")

(* ------------------------ change_longitude_range ----------------------- *)
\* 180 left where it is
LonToPm180Above180(v) == IF v > 180 THEN v - 360 ELSE v

LonToPm180(v) == ((v + 180) % 360) - 180

LonTo360Mirror(v) == IF v < 0 THEN -v ELSE v

LonTo360(v) == IF v < 0 THEN v + 360 ELSE v

ChangeLonMinFirst(lon) ==
  IF SeqMin(lon) < 0
    THEN SortAsc([i \in DOMAIN lon |-> LonTo360(lon[i])])
  ELSE IF SeqMax(lon) > 180
    THEN SortAsc([i \in DOMAIN lon |-> LonToPm180(lon[i])])
  ELSE lon

ChangeLonFrom180(lon) ==
  IF SeqMax(lon) >= 180
    THEN SortAsc([i \in DOMAIN lon |-> LonToPm180(lon[i])])
  ELSE IF SeqMin(lon) < 0
    THEN SortAsc([i \in DOMAIN lon |-> LonTo360(lon[i])])
  ELSE lon

ChangeLon(lon) ==
  IF SeqMax(lon) > 180
    THEN SortAsc([i \in DOMAIN lon |-> LonToPm180(lon[i])])
  ELSE IF SeqMin(lon) < 0
    THEN SortAsc([i \in DOMAIN lon |-> LonTo360(lon[i])])
  ELSE lon

change_longitude_rangeOnReceiver(self, inplace) ==
  LET res == [self EXCEPT !.lon = ChangeLon(self.lon)]
  IN Outcome(res, Returns(inplace, res), "none")

\* data_obj[x_dim] = np.sort(...) replaces the coordinate of the x dimension;
\* the data array is not touched.
change_longitude_range(self, inplace) ==
  LET data_obj == GetObj(self, inplace)
      res == [data_obj EXCEPT !.lon = ChangeLon(data_obj.lon)]
  IN Outcome(IF inplace THEN res ELSE self, Returns(inplace, res), "none")

(* ------------------------------ rasters -------------------------------- *)
MkAttrs(cal, un) ==
  [k \in (IF cal = "absent" THEN {} ELSE {"calendar"})
         \cup (IF un = <<>> THEN {} ELSE {"units"})
     |-> IF k = "calendar" THEN cal ELSE un]

AttrOptions == {MkAttrs(cal, un) : cal \in CalendarValues \cup {"absent"},
                                   un \in UnitsValues \cup {<<>>}}

\* a raster as loaded from a file and wrapped
Loaded(lon, lat, dims, a) ==
  [lon |-> lon, lat |-> lat,
   data |-> [i \in DOMAIN lat |-> [j \in DOMAIN lon |-> <<lat[i], lon[j]>>]],
   dims |-> dims,
   attrs |-> [d \in dims |-> a],
   tdim |-> InferTDim(dims),
   declared |-> FALSE]

\* Spec: every longitude and latitude axis within the bounds, with three
\* layouts of the non-spatial dimensions.
GeoDimSets == {{}, {"time"}, {"F"}}
GeoAttrs == {MkAttrs("360", <<>>), MkAttrs("absent", <<"months", "since", "1960-01-01">>)}

GeoRasters ==
  {Loaded(lon, lat, dims, a) :
     lon \in InjSeqs(LonValues, MaxLon), lat \in InjSeqs(LatValues, MaxLat),
     dims \in GeoDimSets, a \in GeoAttrs}

\* SpecTime: one layout of the spatial axes, with every set of non-spatial
\* dimensions and every attribute dictionary of their coordinates.
TimeRasters ==
  {Loaded(<<199, 5>>, <<87, 90>>, dims, a) : dims \in SUBSET DimNames, a \in AttrOptions}

\* SpecLon: every longitude axis within the bound over values at and around
\* the ends of the two ranges, with one layout of the rest.
LonRangeValues == {-180, -170, 0, 5, 180, 199, 360}

LonRasters ==
  {Loaded(lon, <<90, 87>>, {"time"}, MkAttrs("360", <<>>)) :
     lon \in InjSeqs(LonRangeValues, MaxLon)}

NormStart ==
  /\ ret = <<>>
  /\ pre = <<>>
  /\ lastOp = "none"
  /\ lastMode = "none"
  /\ lastArg = NoDim
  /\ err = "none"

Mode(inplace) == IF inplace THEN "inplace" ELSE "copy"

\* The caller's view of a call: obj is the raster the call is made on, ret
\* what it returned; pre, lastOp, lastMode and lastArg record the call.
SetTimeDim(t_dim, inplace) ==
  LET out == set_time_dim(obj, t_dim, inplace) IN
  /\ pre' = <<obj>>
  /\ lastOp' = "set_time_dim"
  /\ lastMode' = Mode(inplace)
  /\ lastArg' = t_dim
  /\ obj' = out.self
  /\ ret' = out.ret
  /\ err' = out.err
  /\ UNCHANGED <<statVars, asmVars>>

CorrectCalendar(inplace) ==
  LET out == correct_calendar(obj, inplace) IN
  /\ pre' = <<obj>>
  /\ lastOp' = "correct_calendar"
  /\ lastMode' = Mode(inplace)
  /\ lastArg' = NoDim
  /\ obj' = out.self
  /\ ret' = out.ret
  /\ err' = out.err
  /\ UNCHANGED <<statVars, asmVars>>

InvertCoordinates(inplace) ==
  LET out == invert_coordinates(obj, inplace) IN
  /\ pre' = <<obj>>
  /\ lastOp' = "invert_coordinates"
  /\ lastMode' = Mode(inplace)
  /\ lastArg' = NoDim
  /\ obj' = out.self
  /\ ret' = out.ret
  /\ err' = out.err
  /\ UNCHANGED <<statVars, asmVars>>

ChangeLongitudeRange(inplace) ==
  LET out == change_longitude_range(obj, inplace) IN
  /\ pre' = <<obj>>
  /\ lastOp' = "change_longitude_range"
  /\ lastMode' = Mode(inplace)
  /\ lastArg' = NoDim
  /\ obj' = out.self
  /\ ret' = out.ret
  /\ err' = out.err
  /\ UNCHANGED <<statVars, asmVars>>

\* the caller goes on with the raster a copy-mode call returned
\* (ds_inv = ds.aat.change_longitude_range(); ds_inv.aat. ...)
Rebind ==
  /\ ret # <<>>
  /\ obj' = ret[1]
  /\ ret' = <<>>
  /\ lastOp' = "rebind"
  /\ UNCHANGED <<pre, lastMode, lastArg, err>>
  /\ UNCHANGED <<statVars, asmVars>>

(* ====================== compute_raster_statistics ====================== *)
(* The raster of a call is a grid of the cells Cells; a 2D raster has no     *)
(* other dimension (ncombo = 0), an N-D raster has ncombo coordinate         *)
(* combinations of its non-spatial dimensions. missing is the set of         *)
(* <<combination, cell>> whose value is NaN; a present value is              *)
(* CellValue(e, c). A row of gdf is a feature value and a geometry, given by *)
(* the cells whose centre it contains and the cells it touches.              *)
Cells == {1, 2}
Features == {"A", "B"}
FeatureCol == "ADM"

Geoms == {[centre |-> {}, touch |-> {}],
          [centre |-> {}, touch |-> {1}],
          [centre |-> {1, 2}, touch |-> {1, 2}]}

\* the value of cell c at combination e; a 2D raster (e = 0) holds the values
\* of combination 1
CellValue(e, c) == 3 * (IF e = 0 THEN 1 ELSE e) + c

\* an optional list argument: <<>> is None, <<list>> a list
NotGiven == <<>>
Given(list) == <<list>>
DefaultStats == <<"mean", "std", "min", "max", "sum", "count">>

GdfRows == [feature : Features, geom : Geoms]

CombosOf(n) == IF n = 0 THEN {0} ELSE 1..n

CallOptions == {<<NotGiven, NotGiven>>, <<Given(<<"count", "sum">>), Given(<<50>>)>>}

\* the calls with n combinations of the non-spatial coordinates and the
\* optional lists o
StatInputs(n, o) ==
  [crs : BOOLEAN, ncombo : {n}, missing : SUBSET (CombosOf(n) \X Cells),
   gdf : UNION {[1..k -> GdfRows] : k \in 0..MaxRows},
   stats_list : {o[1]}, percentile_list : {o[2]}, all_touched : BOOLEAN]

\* gdf[feature_col].unique(): the distinct values in order of first occurrence
RECURSIVE UniqueFrom(_, _, _)
UniqueFrom(g, k, acc) ==
  IF k > Len(g) THEN acc
  ELSE UniqueFrom(g, k + 1,
                  IF g[k].feature \in Range(acc) THEN acc ELSE Append(acc, g[k].feature))

UniqueKeepDuplicates(g) == [k \in DOMAIN g |-> g[k].feature]

Unique(g) == UniqueFrom(g, 1, <<>>)

\* rio.clip(gdf_adm[geom_col], all_touched): the cells kept for the rows of
\* one feature; NoDataInBounds is raised when none is kept
ClipCells(in, feature) ==
  UNION {IF in.all_touched THEN in.gdf[k].geom.touch ELSE in.gdf[k].geom.centre :
           k \in {i \in DOMAIN in.gdf : in.gdf[i].feature = feature}}

\* values of statistics: a missing value, a rational num/den, or the square
\* root of a rational
NaN == [kind |-> "nan", num |-> 0, den |-> 1]
Num(n, d) == [kind |-> "num", num |-> n, den |-> d]
Sqrt(n, d) == [kind |-> "sqrt", num |-> n, den |-> d]

PresentCells(in, window, e) == {c \in window : <<e, c>> \notin in.missing}

RECURSIVE SumOver(_, _, _)
SumOver(S, e, pow) ==
  IF S = {} THEN 0
  ELSE LET c == CHOOSE x \in S : TRUE
           v == CellValue(e, c)
       IN (IF pow = 2 THEN v * v ELSE v) + SumOver(S \ {c}, e, pow)

StatSumNoMinCount(P, e) == Num(SumOver(P, e, 1), 1)

\* sum(skipna=True, min_count=1)
StatSum(P, e) == IF P = {} THEN NaN ELSE Num(SumOver(P, e, 1), 1)

StatCount(P, e) == Num(Cardinality(P), 1)

StatMean(P, e) == IF P = {} THEN NaN ELSE Num(SumOver(P, e, 1), Cardinality(P))

StatStd(P, e) ==
  IF P = {} THEN NaN
  ELSE LET n == Cardinality(P)
           s1 == SumOver(P, e, 1)
           s2 == SumOver(P, e, 2)
       IN Sqrt(n * s2 - s1 * s1, n * n)

StatMin(P, e) ==
  IF P = {} THEN NaN
  ELSE Num(CellValue(e, CHOOSE c \in P : \A d \in P : CellValue(e, c) <= CellValue(e, d)), 1)

StatMax(P, e) ==
  IF P = {} THEN NaN
  ELSE Num(CellValue(e, CHOOSE c \in P : \A d \in P : CellValue(e, d) <= CellValue(e, c)), 1)

\* getattr(da_clip, stat)(dim=[x_dim, y_dim], **kwargs) at one combination
Reduce(stat, P, e) ==
  IF stat = "sum" THEN StatSum(P, e)
  ELSE IF stat = "count" THEN StatCount(P, e)
  ELSE IF stat = "mean" THEN StatMean(P, e)
  ELSE IF stat = "std" THEN StatStd(P, e)
  ELSE IF stat = "min" THEN StatMin(P, e)
  ELSE StatMax(P, e)

\* the present values of a window in ascending order
RECURSIVE SortedValues(_, _)
SortedValues(P, e) ==
  IF P = {} THEN <<>>
  ELSE LET c == CHOOSE x \in P : \A d \in P : CellValue(e, x) <= CellValue(e, d)
       IN <<CellValue(e, c)>> \o SortedValues(P \ {c}, e)

\* da_clip.quantile(quant / 100, dim=[x_dim, y_dim]): linear interpolation
\* between the two nearest ranks of the present values
Quantile(quant, P, e) ==
  IF P = {} THEN NaN
  ELSE LET xs == SortedValues(P, e)
           h == (Len(xs) - 1) * quant
           lo == h \div 100
           hi == IF lo + 1 < Len(xs) THEN lo + 1 ELSE lo
       IN Num(100 * xs[lo + 1] + (h - 100 * lo) * (xs[hi + 1] - xs[lo + 1]), 100)

StatsList(in) == IF in.stats_list = NotGiven THEN DefaultStats ELSE in.stats_list[1]

Percentiles(in) == IF in.percentile_list = NotGiven THEN <<>> ELSE in.percentile_list[1]

StatNameBare(stat) == stat

StatName(stat) == stat \o "_" \o FeatureCol

QuantName(quant) == ToString(quant) \o "quant_" \o FeatureCol

ColumnNames(in) ==
  {StatName(StatsList(in)[k]) : k \in DOMAIN StatsList(in)}
    \cup {QuantName(Percentiles(in)[k]) : k \in DOMAIN Percentiles(in)}

\* grid_stat_all at one combination: the value of every named column
Columns(in, window, e) ==
  LET P == PresentCells(in, window, e) IN
  [name \in ColumnNames(in) |->
     IF \E k \in DOMAIN StatsList(in) : StatName(StatsList(in)[k]) = name
       THEN Reduce(StatsList(in)[CHOOSE k \in DOMAIN StatsList(in) :
                                   StatName(StatsList(in)[k]) = name], P, e)
       ELSE Quantile(Percentiles(in)[CHOOSE k \in DOMAIN Percentiles(in) :
                                       QuantName(Percentiles(in)[k]) = name], P, e)]

\* df_adm[feature_col] = feature
WithFeature(cols, feature) ==
  [name \in DOMAIN cols \cup {FeatureCol} |-> IF name = FeatureCol THEN feature ELSE cols[name]]

\* df_adm: one row for a 2D raster, else one row per combination of the
\* non-spatial coordinates (to_dataframe().reset_index()); index is the row
\* label, coord the combination (0 on the scalar path), cols the statistics
\* and the feature column
FeatureBlock(in, feature, window) ==
  IF in.ncombo = 0
    THEN <<[index |-> 0, coord |-> 0,
            cols |-> WithFeature(Columns(in, window, 0), feature)]>>
    ELSE [e \in 1..in.ncombo |->
            [index |-> e - 1, coord |-> e,
             cols |-> WithFeature(Columns(in, window, e), feature)]]

RECURSIVE Concat(_)
Concat(blocks) == IF blocks = <<>> THEN <<>> ELSE Head(blocks) \o Concat(Tail(blocks))

\* reset_index(drop=True)
ResetIndex(df) == [k \in DOMAIN df |-> [df[k] EXCEPT !.index = k - 1]]

CrsMissingIgnored(in) == FALSE

CrsMissing(in) == ~in.crs

StatIdle ==
  /\ sPc = "start"
  /\ sQueue = <<>>
  /\ df_list = <<>>
  /\ sResult = <<>>
  /\ sErr = "none"
  /\ sLog = <<>>
  /\ sClips = 0

\* lines 392-399: the CRS check, then the loop is set up
StatBegin ==
  /\ sPc = "start"
  /\ IF CrsMissing(sIn)
       THEN /\ sPc' = "raised"
            /\ sErr' = "MissingCRS"
            /\ UNCHANGED sQueue
       ELSE /\ sPc' = "loop"
            /\ sQueue' = Unique(sIn.gdf)
            /\ UNCHANGED sErr
  /\ UNCHANGED <<sIn, df_list, sResult, sLog, sClips>>
  /\ UNCHANGED <<normVars, asmVars>>

\* lines 401-465: one iteration of the loop over the distinct features
StatFeature ==
  /\ sPc = "loop"
  /\ sQueue # <<>>
  /\ LET feature == Head(sQueue)
         window == ClipCells(sIn, feature)
     IN /\ sClips' = sClips + 1
        /\ IF window = {}
             THEN /\ sLog' = Append(sLog, feature)
                  /\ UNCHANGED df_list
             ELSE /\ df_list' = Append(df_list, FeatureBlock(sIn, feature, window))
                  /\ UNCHANGED sLog
  /\ sQueue' = Tail(sQueue)
  /\ UNCHANGED <<sIn, sPc, sResult, sErr>>
  /\ UNCHANGED <<normVars, asmVars>>

\* lines 467-468: pd.concat raises ValueError on an empty list
StatFinish ==
  /\ sPc = "loop"
  /\ sQueue = <<>>
  /\ IF df_list = <<>>
       THEN /\ sPc' = "raised"
            /\ sErr' = "ValueError"
            /\ UNCHANGED sResult
       ELSE /\ sPc' = "done"
            /\ sResult' = ResetIndex(Concat(df_list))
            /\ UNCHANGED sErr
  /\ UNCHANGED <<sIn, sQueue, df_list, sLog, sClips>>
  /\ UNCHANGED <<normVars, asmVars>>

\* a raster and a call that take no part in a specification
NormIdle == obj = Loaded(<<5>>, <<87>>, {}, MkAttrs("absent", <<>>)) /\ NormStart

StatNoCall ==
  /\ sIn = [crs |-> FALSE, ncombo |-> 0, missing |-> {}, gdf |-> <<>>,
            stats_list |-> NotGiven, percentile_list |-> NotGiven, all_touched |-> FALSE]
  /\ StatIdle

(* ============ _read_in_ensemble_and_perturbed_datasets ================= *)
(* The file holds the control forecast (one realization, its number the     *)
(* scalar coordinate cf_number[1], as cfgrib reads it) and the perturbed    *)
(* forecast (the realizations labelled pf_number). Each has a step          *)
(* dimension and the attributes of the dataset.                             *)
(* A dataset is its index along number, its index along step, and           *)
(* data[k][j], the value at number[k] and step[j]: the value of a           *)
(* realization of the file at a step, or the fill value.                    *)
Labels == 0..MaxLabel

StepAxes == {<<1>>, <<2>>, <<1, 2>>, <<1, 3>>, <<2, 1>>, <<1, 2, 3>>}

DatasetAttrs == {[institution |-> "ecmf", history |-> "cf"],
                 [institution |-> "ecmf", history |-> "pf"]}

Value(src, i, s) == [src |-> src, i |-> i, s |-> s]

\* fill_value = dtypes.NA
Fill == [src |-> "nan", i |-> 0, s |-> 0]

AsmInputs == [cf_number : {<<c>> : c \in Labels},
              pf_number : InjSeqs(Labels, MaxMembers),
              cf_step : StepAxes,
              pf_step : StepAxes,
              cf_attrs : {[institution |-> "ecmf", history |-> "cf"]},
              pf_attrs : DatasetAttrs]

\* xr.load_dataset(..., filter_by_keys={"dataType": data_type}), and
\* expand_dims(dim="number") for the control forecast
LoadDataset(in, data_type) ==
  IF data_type = "cf"
    THEN [number |-> in.cf_number,
          step |-> in.cf_step,
          data |-> <<[j \in DOMAIN in.cf_step |-> Value("cf", 0, in.cf_step[j])]>>,
          attrs |-> in.cf_attrs]
    ELSE [number |-> in.pf_number,
          step |-> in.pf_step,
          data |-> [k \in DOMAIN in.pf_number |->
                      [j \in DOMAIN in.pf_step |-> Value("pf", k, in.pf_step[j])]],
          attrs |-> in.pf_attrs]

IsMonotonicIncreasing(s) == \A i, j \in DOMAIN s : i < j => s[i] <= s[j]

IsMonotonicDecreasing(s) == \A i, j \in DOMAIN s : i < j => s[i] >= s[j]

RECURSIVE SortedSeq(_)
SortedSeq(S) ==
  IF S = {} THEN <<>>
  ELSE LET m == CHOOSE x \in S : \A y \in S : x <= y
       IN <<m>> \o SortedSeq(S \ {m})

\* join="outer": an index both datasets share is kept, else the sorted union
OuterJoin(a, b) == IF a = b THEN a ELSE SortedSeq(Range(a) \cup Range(b))

\* a dataset reindexed to the joined index of a dimension: the values it
\* holds at a label stay at that label, the other labels are filled
ReindexStep(d, S) ==
  [d EXCEPT !.step = S,
            !.data = [k \in DOMAIN d.number |->
                        [j \in DOMAIN S |->
                           IF S[j] \in Range(d.step)
                             THEN d.data[k][PosOf(d.step, S[j])] ELSE Fill]]]

ReindexNumber(d, N) ==
  [d EXCEPT !.number = N,
            !.data = [k \in DOMAIN N |->
                        IF N[k] \in Range(d.number)
                          THEN d.data[PosOf(d.number, N[k])]
                          ELSE [j \in DOMAIN d.step |-> Fill]]]

\* combine_attrs="drop_conflicts": an attribute with two different values
\* is dropped, every other one is kept
DropConflicts(a, b) ==
  [k \in {x \in DOMAIN a \cup DOMAIN b :
            ~(x \in DOMAIN a /\ x \in DOMAIN b /\ a[x] # b[x])}
     |-> IF k \in DOMAIN a THEN a[k] ELSE b[k]]

\* xr.concat([a, b], dim="number", join="outer", combine_attrs="drop_conflicts")
ConcatDs(a, b) ==
  LET S == OuterJoin(a.step, b.step)
  IN [number |-> a.number \o b.number,
      step |-> S,
      data |-> ReindexStep(a, S).data \o ReindexStep(b, S).data,
      attrs |-> DropConflicts(a.attrs, b.attrs)]

\* xr.concat([a, b], dim="step", join="outer", combine_attrs="drop_conflicts")
ConcatStep(a, b) ==
  LET N == OuterJoin(a.number, b.number)
  IN [number |-> N,
      step |-> a.step \o b.step,
      data |-> [k \in DOMAIN N |-> ReindexNumber(a, N).data[k] \o ReindexNumber(b, N).data[k]],
      attrs |-> DropConflicts(a.attrs, b.attrs)]

ConcatAlong(dim, a, b) == IF dim = "number" THEN ConcatDs(a, b) ELSE ConcatStep(a, b)

\* the dimensions of the first dataset whose index is not the same in both
ConcatDims(d0, d1) == SelectSeq(<<"number", "step">>, LAMBDA dim : d0[dim] # d1[dim])

BothIncreasing(d0, d1, dim) == IsMonotonicIncreasing(d0[dim]) /\ IsMonotonicIncreasing(d1[dim])

BothDecreasing(d0, d1, dim) == IsMonotonicDecreasing(d0[dim]) /\ IsMonotonicDecreasing(d1[dim])

TileOrderDescending(d0, d1, dim) ==
  IF d0[dim][1] = d1[dim][1] THEN <<0, 0>>
  ELSE IF (d0[dim][1] < d1[dim][1]) = BothIncreasing(d0, d1, dim) THEN <<1, 0>>
  ELSE <<0, 1>>

\* the position of each dataset along a dimension: the dense rank of the
\* first label of its index, ascending when the indexes are increasing
TileOrder(d0, d1, dim) ==
  IF d0[dim][1] = d1[dim][1] THEN <<0, 0>>
  ELSE IF (d0[dim][1] < d1[dim][1]) = BothIncreasing(d0, d1, dim) THEN <<0, 1>>
  ELSE <<1, 0>>

\* _combine_nd over combined_ids: two datasets of the same tile id are one
\* entry, the later one; else the datasets are concatenated along the first
\* dimension within each group of equal remaining positions, and the groups
\* along the next dimension
CombineNd(d0, d1, dims) ==
  LET ids == [k \in DOMAIN dims |-> TileOrder(d0, d1, dims[k])]
      inOrder(dim, pos) == IF pos[1] < pos[2] THEN ConcatAlong(dim, d0, d1)
                           ELSE ConcatAlong(dim, d1, d0)
  IN IF \A k \in DOMAIN dims : ids[k][1] = ids[k][2]
       THEN d1
     ELSE IF \E k \in 2..Len(dims) : ids[k][1] # ids[k][2]
       THEN inOrder(dims[2], ids[2])
     ELSE inOrder(dims[1], ids[1])

\* xr.combine_by_coords(ds_list, combine_attrs="drop_conflicts")
CombineByCoords(dss) ==
  LET d0 == dss[1]
      d1 == dss[2]
      dims == ConcatDims(d0, d1)
      failed == [err |-> "ValueError", ds |-> <<>>]
  IN IF dims = <<>>
       THEN failed   \* every index is the same: nothing to order by
     ELSE IF \E k \in DOMAIN dims :
               ~BothIncreasing(d0, d1, dims[k]) /\ ~BothDecreasing(d0, d1, dims[k])
       THEN failed   \* neither monotonically increasing nor decreasing
     ELSE LET combined == CombineNd(d0, d1, dims)
          IN IF \A k \in DOMAIN dims :
                  \/ IsMonotonicIncreasing(combined[dims[k]])
                  \/ IsMonotonicDecreasing(combined[dims[k]])
               THEN [err |-> "none", ds |-> <<combined>>]
               ELSE failed   \* no monotonic global index along a dimension

AsmIdle ==
  /\ aPc = "cf"
  /\ ds_list = <<>>
  /\ aResult = <<>>
  /\ aErr = "none"

\* lines 72-84: one iteration of the loop over "cf", "pf"
AsmLoad ==
  /\ aPc \in {"cf", "pf"}
  /\ ds_list' = Append(ds_list, LoadDataset(aIn, aPc))
  /\ aPc' = IF aPc = "cf" THEN "pf" ELSE "combine"
  /\ UNCHANGED <<aIn, aResult, aErr>>
  /\ UNCHANGED <<normVars, statVars>>

\* line 85
AsmCombine ==
  /\ aPc = "combine"
  /\ LET out == CombineByCoords(ds_list)
     IN /\ aErr' = out.err
        /\ aResult' = out.ds
        /\ aPc' = IF out.err = "none" THEN "done" ELSE "raised"
  /\ UNCHANGED <<aIn, ds_list>>
  /\ UNCHANGED <<normVars, statVars>>

AsmNoCall ==
  /\ aIn = [cf_number |-> <<0>>, pf_number |-> <<1>>,
            cf_step |-> <<1>>, pf_step |-> <<1>>,
            cf_attrs |-> [institution |-> "ecmf", history |-> "cf"],
            pf_attrs |-> [institution |-> "ecmf", history |-> "cf"]]
  /\ AsmIdle

(* ========================== get_raster_array =========================== *)
(* A dataset, or a data array of it, with its two accessors: dims are the   *)
(* names of its dimensions, rio the _x_dim, _y_dim and _crs of its rio       *)
(* accessor (declared: set_spatial_dims has assigned them), xdim, ydim and   *)
(* crs the _x_dim, _y_dim and _crs of its aat accessor, tdim and declared    *)
(* the _t_dim of the aat accessor as for a raster.                           *)
SpatialNames == {<<"x", "y">>, <<"lon", "lat">>, <<"X", "Y">>}

CrsValues == {"EPSG:4326", "EPSG:3857"}

VarNames == {"temperature", "mask"}

\* XRasterBase.__init__ of rioxarray: the spatial dimensions found by name
RioInfer(dims) ==
  IF {"x", "y"} \subseteq dims THEN <<"x", "y">>
  ELSE IF {"longitude", "latitude"} \subseteq dims THEN <<"longitude", "latitude">>
  ELSE <<NoDim, NoDim>>

\* AatRasterMixin.__init__: lat and lon added to the default spatial names
AatInfer(dims) ==
  IF {"lat", "lon"} \subseteq dims THEN <<"lon", "lat">> ELSE RioInfer(dims)

\* an xarray object of these dimensions with new accessors
Wrap(dims) ==
  [dims |-> dims,
   rio |-> [x_dim |-> RioInfer(dims)[1], y_dim |-> RioInfer(dims)[2],
            crs |-> NoDim, declared |-> FALSE],
   xdim |-> AatInfer(dims)[1],
   ydim |-> AatInfer(dims)[2],
   crs |-> NoDim,
   tdim |-> InferTDim(dims),
   declared |-> FALSE]

Datasets ==
  {Wrap({sp[1], sp[2]} \cup other) : sp \in SpatialNames, other \in {{"time"}, {"F"}}}

\* rioxarray's set_spatial_dims (inplace=True): obj.rio._x_dim, obj.rio._y_dim
set_spatial_dims(self, x_dim, y_dim) ==
  IF x_dim \notin self.dims
    THEN Outcome(self, <<>>, "MissingSpatialDimensionError")
  ELSE IF y_dim \notin self.dims
    THEN Outcome([self EXCEPT !.rio.x_dim = x_dim], <<>>, "MissingSpatialDimensionError")
  ELSE LET res == [self EXCEPT !.rio.x_dim = x_dim, !.rio.y_dim = y_dim,
                               !.rio.declared = TRUE]
       IN Outcome(res, <<res>>, "none")

\* rioxarray's set_crs (inplace=True): obj.rio._crs
set_crs(self, input_crs) ==
  LET res == [self EXCEPT !.rio.crs = input_crs]
  IN Outcome(res, <<res>>, "none")

\* self._obj[var]: a new data array of the dimensions of the variable; mask
\* has the spatial dimensions only
getitem(self, var) ==
  Wrap(IF var = "mask" THEN self.dims \cap {"x", "y", "lon", "lat", "X", "Y"}
       ELSE self.dims)

\* lines 530-543: self is the aat accessor of the dataset, and _x_dim, _y_dim
\* and _crs are its own
get_raster_array(self, var) ==
  LET obj0 == getitem(self, var)
      s1 == IF self.xdim # NoDim /\ self.ydim # NoDim
              THEN set_spatial_dims(obj0, self.xdim, self.ydim)
              ELSE Outcome(obj0, <<>>, "none")
      s2 == IF s1.err = "none" /\ self.crs # NoDim
              THEN set_crs(s1.self, self.crs) ELSE s1
      s3 == IF s2.err = "none" /\ self.tdim # NoDim
              THEN set_time_dim(s2.self, self.tdim, TRUE) ELSE s2
  IN Outcome(self, IF s3.err = "none" THEN <<s3.self>> ELSE <<>>, s3.err)

SetSpatialDims(x_dim, y_dim) ==
  LET out == set_spatial_dims(obj, x_dim, y_dim) IN
  /\ pre' = <<obj>>
  /\ lastOp' = "set_spatial_dims"
  /\ lastMode' = "inplace"
  /\ lastArg' = x_dim
  /\ obj' = out.self
  /\ ret' = out.ret
  /\ err' = out.err
  /\ UNCHANGED <<statVars, asmVars>>

SetCrs(input_crs) ==
  LET out == set_crs(obj, input_crs) IN
  /\ pre' = <<obj>>
  /\ lastOp' = "set_crs"
  /\ lastMode' = "inplace"
  /\ lastArg' = input_crs
  /\ obj' = out.self
  /\ ret' = out.ret
  /\ err' = out.err
  /\ UNCHANGED <<statVars, asmVars>>

GetRasterArray(var) ==
  LET out == get_raster_array(obj, var) IN
  /\ pre' = <<obj>>
  /\ lastOp' = "get_raster_array"
  /\ lastMode' = "copy"
  /\ lastArg' = var
  /\ obj' = out.self
  /\ ret' = out.ret
  /\ err' = out.err
  /\ UNCHANGED <<statVars, asmVars>>

\* ds[var]
GetItem(var) ==
  /\ pre' = <<obj>>
  /\ lastOp' = "getitem"
  /\ lastMode' = "copy"
  /\ lastArg' = var
  /\ ret' = <<getitem(obj, var)>>
  /\ err' = "none"
  /\ UNCHANGED obj
  /\ UNCHANGED <<statVars, asmVars>>

vars == <<normVars, statVars, asmVars>>

Init == obj \in GeoRasters /\ NormStart /\ StatNoCall /\ AsmNoCall

Next ==
  \/ \E t_dim \in DimNames, inplace \in BOOLEAN : SetTimeDim(t_dim, inplace)
  \/ \E inplace \in BOOLEAN : CorrectCalendar(inplace)
  \/ \E inplace \in BOOLEAN : InvertCoordinates(inplace)
  \/ \E inplace \in BOOLEAN : ChangeLongitudeRange(inplace)
  \/ Rebind

Spec == Init /\ [][Next]_vars

InitTime == obj \in TimeRasters /\ NormStart /\ StatNoCall /\ AsmNoCall

SpecTime == InitTime /\ [][Next]_vars

InitLon == obj \in LonRasters /\ NormStart /\ StatNoCall /\ AsmNoCall

SpecLon == InitLon /\ [][Next]_vars

InitGet == obj \in Datasets /\ NormStart /\ StatNoCall /\ AsmNoCall

NextGet ==
  \/ \E sp \in SpatialNames : SetSpatialDims(sp[1], sp[2])
  \/ \E input_crs \in CrsValues : SetCrs(input_crs)
  \/ \E t_dim \in DimNames : SetTimeDim(t_dim, TRUE)
  \/ \E var \in VarNames : GetRasterArray(var)
  \/ \E var \in VarNames : GetItem(var)

SpecGet == InitGet /\ [][NextGet]_vars

InitStats ==
  /\ NormIdle
  /\ \E n \in 0..MaxCombos, o \in CallOptions : sIn \in StatInputs(n, o)
  /\ StatIdle
  /\ AsmNoCall

NextStats == StatBegin \/ StatFeature \/ StatFinish

SpecStats == InitStats /\ [][NextStats]_vars

InitAsm == NormIdle /\ StatNoCall /\ aIn \in AsmInputs /\ AsmIdle

NextAsm == AsmLoad \/ AsmCombine

SpecAsm == InitAsm /\ [][NextAsm]_vars

(* ======================= properties of the normalizer ================== *)
IsAscending(s) == \A i, j \in DOMAIN s : i < j => s[i] <= s[j]

Count(s, v) == Cardinality({i \in DOMAIN s : s[i] = v})

SameValues(a, b) ==
  /\ Len(a) = Len(b)
  /\ \A v \in Range(a) \cup Range(b) : Count(a, v) = Count(b, v)

\* the raster a call produced: the returned one in copy mode, the receiver
\* in in-place mode
Produced == IF lastMode = "copy" THEN ret[1] ELSE obj

\* C1: the longitude axis produced by change_longitude_range is the ascending
\* sort of ((v + 180) mod 360) - 180 over the input longitudes when the input
\* maximum exceeds 180 (also when the minimum is negative as well); else, when
\* the input minimum is negative, the ascending sort of the input with every
\* negative v replaced by v + 360; else the input axis unchanged.
C1_LongitudeAxisRule ==
  lastOp = "change_longitude_range" =>
    LET in == pre[1].lon
        out == Produced.lon
    IN IF \E i \in DOMAIN in : in[i] > 180
         THEN /\ IsAscending(out)
              /\ SameValues(out, [i \in DOMAIN in |-> ((in[i] + 180) % 360) - 180])
       ELSE IF \E i \in DOMAIN in : in[i] < 0
         THEN /\ IsAscending(out)
              /\ SameValues(out, [i \in DOMAIN in |-> IF in[i] < 0 THEN in[i] + 360 ELSE in[i]])
       ELSE out = in

\* a call on an axis with a longitude above 180 and a negative one: the first
\* rule was applied
C1_Witness ==
  /\ lastOp = "change_longitude_range"
  /\ lastMode = "copy"
  /\ pre = <<[obj EXCEPT !.lon = <<199, -170>>]>>
  /\ ret[1].lon = <<-170, -161>>

\* C2: whenever change_longitude_range converts the axis, the data follow the
\* coordinates: the values the input held at longitude v are found in the
\* result at the converted value of v.
C2_DataFollowLongitude ==
  (lastOp = "change_longitude_range" /\ Produced.lon # pre[1].lon) =>
    LET in == pre[1]
        out == Produced
        conv(v) == IF SeqMax(in.lon) > 180 THEN ((v + 180) % 360) - 180
                   ELSE IF v < 0 THEN v + 360 ELSE v
    IN \A j \in DOMAIN in.lon :
         \E k \in DOMAIN out.lon :
           /\ out.lon[k] = conv(in.lon[j])
           /\ \A i \in DOMAIN in.lat : out.data[i][k] = in.data[i][j]

\* C3: invert_coordinates finds longitude inverted exactly when its first
\* coordinate is greater than its last and latitude exactly when its first is
\* less than its last; the raster it returns has each inverted axis reversed,
\* every value at the position of the coordinate it had, the other axis as it
\* was, and equals the input when neither axis is inverted.
C3_InvertCoordinates ==
  (lastOp = "invert_coordinates" /\ lastMode = "copy") =>
    LET in == pre[1]
        out == ret[1]
        nlon == Len(in.lon)
        nlat == Len(in.lat)
        lonInv == in.lon[1] > in.lon[nlon]
        latInv == in.lat[1] < in.lat[nlat]
        toCol(j) == IF lonInv THEN nlon + 1 - j ELSE j
        toRow(i) == IF latInv THEN nlat + 1 - i ELSE i
    IN /\ Len(out.lon) = nlon /\ Len(out.lat) = nlat
       /\ \A j \in 1..nlon : out.lon[toCol(j)] = in.lon[j]
       /\ \A i \in 1..nlat : out.lat[toRow(i)] = in.lat[i]
       /\ \A i \in 1..nlat, j \in 1..nlon : out.data[toRow(i)][toCol(j)] = in.data[i][j]
       /\ (~lonInv /\ ~latInv) =>
            (out.lon = in.lon /\ out.lat = in.lat /\ out.data = in.data
             /\ out.dims = in.dims /\ out.attrs = in.attrs)

\* longitude inverted, latitude not: the returned raster has the longitude
\* reversed and the latitude as it was
C3_Witness ==
  /\ lastOp = "invert_coordinates"
  /\ lastMode = "copy"
  /\ pre[1].lon = <<199, 5>>
  /\ pre[1].lat = <<90, 87>>
  /\ ret[1].lon = <<5, 199>>
  /\ ret[1].lat = <<90, 87>>
  /\ ret[1].data[1][1] = pre[1].data[1][2]

\* the same call made in copy mode on the raster the last call was made on
SameCallInCopyMode ==
  IF lastOp = "set_time_dim" THEN set_time_dim(pre[1], lastArg, FALSE)
  ELSE IF lastOp = "correct_calendar" THEN correct_calendar(pre[1], FALSE)
  ELSE IF lastOp = "invert_coordinates" THEN invert_coordinates(pre[1], FALSE)
  ELSE change_longitude_range(pre[1], FALSE)

\* C4: a call of set_time_dim, correct_calendar, invert_coordinates or
\* change_longitude_range in in-place mode returns no value and leaves the
\* caller's raster in the state of the raster the same call in copy mode
\* would have returned.
C4_InplaceMatchesCopy ==
  (lastMode = "inplace" /\ err = "none"
     /\ lastOp \in {"set_time_dim", "correct_calendar",
                    "invert_coordinates", "change_longitude_range"}) =>
    /\ ret = <<>>
    /\ <<obj>> = SameCallInCopyMode.ret

(* =================== properties of compute_raster_statistics =========== *)
Terminal == sPc \in {"done", "raised"}

DistinctFeatures == {sIn.gdf[k].feature : k \in DOMAIN sIn.gdf}

\* the cells of the raster the rows of feature f select
Selected(f) ==
  {c \in Cells : \E k \in DOMAIN sIn.gdf :
     /\ sIn.gdf[k].feature = f
     /\ c \in (IF sIn.all_touched THEN sIn.gdf[k].geom.touch ELSE sIn.gdf[k].geom.centre)}

Overlapping == {f \in DistinctFeatures : Selected(f) # {}}

RowsOf(df, f) == {k \in DOMAIN df : df[k].cols[FeatureCol] = f}

CombosPerFeature == IF sIn.ncombo = 0 THEN 1 ELSE sIn.ncombo

\* C5: a feature whose clip finds no overlapping cells is skipped without
\* raising: the call returns, a warning is logged for the feature, it has no
\* row, and the result holds rows for exactly the distinct features that
\* overlap the raster.
C5_NoOverlapSkipped ==
  (Terminal /\ sIn.crs /\ Overlapping # DistinctFeatures) =>
    /\ sPc = "done"
    /\ sErr = "none"
    /\ Range(sLog) = DistinctFeatures \ Overlapping
    /\ {sResult[k].cols[FeatureCol] : k \in DOMAIN sResult} = Overlapping

\* C6: when every feature is skipped, and when the region set has no feature,
\* the call returns an empty result with zero rows and raises no error.
C6_AllSkippedEmptyResult ==
  (Terminal /\ sIn.crs /\ Overlapping = {}) =>
    /\ sPc = "done"
    /\ sErr = "none"
    /\ sResult = <<>>

\* C7: for a region set with N >= 1 distinct feature values that all overlap
\* the raster the call returns N rows for a 2D raster and N times the number
\* of non-spatial coordinate combinations for an N-D raster; the rows of each
\* feature value form one block, one row per combination, and the rows are
\* indexed 0, 1, 2, ... without gaps.
C7_RowsPerFeature ==
  (Terminal /\ sIn.crs /\ DistinctFeatures # {} /\ Overlapping = DistinctFeatures) =>
    /\ sPc = "done"
    /\ Len(sResult) = Cardinality(DistinctFeatures) * CombosPerFeature
    /\ \A f \in DistinctFeatures :
         /\ Cardinality(RowsOf(sResult, f)) = CombosPerFeature
         /\ \A a, b \in RowsOf(sResult, f) :
              /\ \A k \in a..b : k \in RowsOf(sResult, f)
              /\ sResult[a].coord = sResult[b].coord => a = b
    /\ \A k \in DOMAIN sResult : sResult[k].index = k - 1

\* two rows of gdf share the one feature value of an N-D raster: one block
C7_Witness ==
  /\ sPc = "done"
  /\ Len(sIn.gdf) = 2
  /\ sIn.gdf[1].feature = sIn.gdf[2].feature
  /\ sIn.ncombo = 2
  /\ Len(sResult) = 2
  /\ sResult[2].index = 1

\* two distinct features that overlap a 2D raster: two rows
C7_WitnessTwoFeatures ==
  /\ sPc = "done"
  /\ Cardinality(DistinctFeatures) = 2
  /\ Overlapping = DistinctFeatures
  /\ sIn.ncombo = 0
  /\ Len(sResult) = 2

RECURSIVE TotalOf(_, _)
TotalOf(P, e) ==
  IF P = {} THEN 0
  ELSE LET c == CHOOSE x \in P : \A y \in P : y <= x
       IN TotalOf(P \ {c}, e) + CellValue(e, c)

\* C8: every statistic of a row is taken over the cells of the two spatial
\* dimensions at the row's own combination of the other coordinates, and over
\* the present cells only; the sum is missing when every cell of the window
\* is missing and else the sum of the present cells.
C8_SumOfMissingWindow ==
  sPc = "done" =>
    \A k \in DOMAIN sResult :
      LET row == sResult[k]
          present == {c \in Selected(row.cols[FeatureCol]) : <<row.coord, c>> \notin sIn.missing}
      IN /\ row.coord \in CombosOf(sIn.ncombo)
         /\ row.cols["sum_ADM"] =
              IF present = {} THEN [kind |-> "nan", num |-> 0, den |-> 1]
              ELSE [kind |-> "num", num |-> TotalOf(present, row.coord), den |-> 1]
         /\ row.cols["count_ADM"] = [kind |-> "num", num |-> Cardinality(present), den |-> 1]
         /\ (present = {}) = (row.cols["count_ADM"].num = 0)

\* an N-D raster: at one combination every cell of the window is missing and
\* the sum is missing, at another one cell of two is missing and the sum is
\* the value of the present one
C8_Witness ==
  /\ sPc = "done"
  /\ sIn.ncombo = 2
  /\ \E k, l \in DOMAIN sResult :
       /\ sResult[k].cols[FeatureCol] = sResult[l].cols[FeatureCol]
       /\ Selected(sResult[k].cols[FeatureCol]) = {1, 2}
       /\ sResult[k].coord = 1 /\ sResult[l].coord = 2
       /\ {<<1, 1>>, <<1, 2>>, <<2, 1>>} = sIn.missing
       /\ sResult[k].cols["sum_ADM"].kind = "nan"
       /\ sResult[l].cols["sum_ADM"] = [kind |-> "num", num |-> CellValue(2, 2), den |-> 1]

\* C9: on a raster without a CRS the call fails with MissingCRS before any
\* region is clipped or any statistic computed, whatever the region set, and
\* returns no table.
C9_MissingCrsFirst ==
  (~sIn.crs /\ sPc # "start") =>
    /\ sPc = "raised"
    /\ sErr = "MissingCRS"
    /\ sClips = 0
    /\ df_list = <<>>
    /\ sLog = <<>>
    /\ sResult = <<>>

\* no CRS and a region that overlaps the raster: MissingCRS, nothing clipped
C9_Witness ==
  /\ ~sIn.crs
  /\ Overlapping # {}
  /\ sPc = "raised"
  /\ sErr = "MissingCRS"
  /\ sClips = 0

\* no CRS and an empty region set: MissingCRS as well
C9_WitnessEmpty ==
  /\ ~sIn.crs
  /\ sIn.gdf = <<>>
  /\ sPc = "raised"
  /\ sErr = "MissingCRS"

(* ==================== properties of the ensemble assembly ============== *)
AsmTerminal == aPc \in {"done", "raised"}

SameSteps == aIn.cf_step = aIn.pf_step

\* the realizations of the file that have a value at member k of a dataset
RowSources(d, k) ==
  {<<d.data[k][j].src, d.data[k][j].i>> : j \in {x \in DOMAIN d.step : d.data[k][x] # Fill}}

\* the assembled dataset has K + 1 members, the control realization first
\* and the K perturbed realizations after it
ControlFirst ==
  /\ aPc = "done"
  /\ aErr = "none"
  /\ Len(aResult[1].number) = Len(aIn.pf_number) + 1
  /\ RowSources(aResult[1], 1) = {<<"cf", 0>>}
  /\ {RowSources(aResult[1], k) : k \in 2..Len(aResult[1].number)}
       = {{<<"pf", k>>} : k \in DOMAIN aIn.pf_number}

AscendingAboveControl ==
  /\ \A i, j \in DOMAIN aIn.pf_number : i < j => aIn.pf_number[i] < aIn.pf_number[j]
  /\ \A k \in DOMAIN aIn.pf_number : aIn.cf_number[1] < aIn.pf_number[k]

C11_MismatchFailsAttrsDropped ==
  AsmTerminal =>
    /\ ~SameSteps => (aPc = "raised" /\ aResult = <<>>)
    /\ (SameSteps /\ aPc = "done") =>
         aResult[1].attrs = [k \in {x \in DOMAIN aIn.cf_attrs :
                                      aIn.cf_attrs[x] = aIn.pf_attrs[x]} |-> aIn.cf_attrs[k]]

(* ================= properties of the time dimension ==================== *)
\* the units attribute holds "months since"
MonthsSince(a) ==
  /\ "units" \in DOMAIN a
  /\ \E k \in 1..(Len(a["units"]) - 1) : a["units"][k] = "months" /\ a["units"][k + 1] = "since"

\* the raster left by one more correct_calendar in the mode of the last call,
\* made on the raster the last call produced
CorrectedAgain ==
  LET out == correct_calendar(Produced, lastMode = "inplace")
  IN IF out.ret # <<>> THEN out.ret[1] ELSE out.self

\* C12: correct_calendar leaves the attributes of the time coordinate with
\* calendar "360_day" when calendar was "360", else with calendar "360_day"
\* (added or overwritten) when units holds "months since", else as they were,
\* and raises nothing in any of the three cases; every other attribute, the
\* attributes of the other coordinates and the rest of the raster are as
\* before, and a second application leaves the attributes as the first did.
C12_CalendarRule ==
  (lastOp = "correct_calendar" /\ err = "none") =>
    LET t == pre[1].tdim
        in == pre[1].attrs[t]
        out == Produced.attrs[t]
    IN /\ IF "calendar" \in DOMAIN in /\ in["calendar"] = "360"
            THEN "calendar" \in DOMAIN out /\ out["calendar"] = "360_day"
          ELSE IF MonthsSince(in)
            THEN "calendar" \in DOMAIN out /\ out["calendar"] = "360_day"
          ELSE out = in
       /\ DOMAIN out \ {"calendar"} = DOMAIN in \ {"calendar"}
       /\ \A k \in DOMAIN in \ {"calendar"} : out[k] = in[k]
       /\ \A d \in pre[1].dims \ {t} : Produced.attrs[d] = pre[1].attrs[d]
       /\ Produced.dims = pre[1].dims
       /\ Produced.lon = pre[1].lon /\ Produced.lat = pre[1].lat
       /\ Produced.data = pre[1].data
       /\ CorrectedAgain.attrs = Produced.attrs

\* one of t, T, time is a dimension of the raster
HasDefaultTimeDim(r) == r.dims \cap {"t", "T", "time"} # {}

\* reading the time dimension of a raster fails exactly when none was declared
\* on it and it has none of the default names
ReadFailsExactly(r) ==
  (read_t_dim(r).err = "DimensionError") <=> (~r.declared /\ ~HasDefaultTimeDim(r))

\* C13: set_time_dim with a name that is not a dimension of the raster fails
\* with DimensionError, returns nothing and leaves the time dimension of the
\* raster as it was, in both modes, and with a dimension name it does not
\* fail; reading the time dimension of a raster fails with DimensionError
\* exactly when none was declared on it and none of t, T, time is one of its
\* dimensions, and correct_calendar fails with DimensionError exactly then.
C13_DimensionErrors ==
  /\ lastOp = "set_time_dim" =>
        IF lastArg \in pre[1].dims \cup {"lat", "lon"}
          THEN err = "none"
          ELSE err = "DimensionError" /\ ret = <<>> /\ obj = pre[1]
  /\ ReadFailsExactly(obj)
  /\ ret # <<>> => ReadFailsExactly(ret[1])
  /\ lastOp = "correct_calendar" =>
        /\ err \in {"none", "DimensionError"}
        /\ (err = "DimensionError") <=> (~pre[1].declared /\ ~HasDefaultTimeDim(pre[1]))
        /\ err = "DimensionError" => (ret = <<>> /\ obj = pre[1])

\* a raster with the declared time dimension F: set_time_dim with a name that
\* is not a dimension fails and F stays declared
C13_Witness ==
  /\ lastOp = "set_time_dim"
  /\ lastArg = "T"
  /\ err = "DimensionError"
  /\ obj.dims = {"F"}
  /\ obj.declared
  /\ obj.tdim = "F"

\* correct_calendar on a raster with no declared and no default time
\* dimension fails
C13_WitnessNoTimeDim ==
  /\ lastOp = "correct_calendar"
  /\ err = "DimensionError"
  /\ obj.dims = {"F"}
  /\ ~obj.declared

(* ================= properties of the longitude range =================== *)
InPm180(lon) == \A i \in DOMAIN lon : -180 <= lon[i] /\ lon[i] < 180

In360(lon) == \A i \in DOMAIN lon : 0 <= lon[i] /\ lon[i] < 360

\* the raster left by one more change_longitude_range in the mode of the last
\* call, made on the raster the last call produced
ConvertedAgain ==
  LET out == change_longitude_range(Produced, lastMode = "inplace")
  IN IF out.ret # <<>> THEN out.ret[1] ELSE out.self

RoundTrip ==
  /\ SameValues(ConvertedAgain.lon, pre[1].lon)
  /\ Produced.lon # pre[1].lon =>
       IF In360(pre[1].lon) THEN InPm180(Produced.lon) ELSE In360(Produced.lon)

\* C14 as stated: from an axis whose longitudes all lie in [-180,180) or all
\* in [0,360), two applications of change_longitude_range give the longitude
\* values of the start; an application that converts the axis leaves it in
\* the other range.
C14_RoundTrip ==
  (lastOp = "change_longitude_range" /\ (InPm180(pre[1].lon) \/ In360(pre[1].lon))) =>
    RoundTrip

\* -180 is a longitude of the axis and its only negative one
OnlyNegativeIsMinus180(lon) ==
  /\ \E i \in DOMAIN lon : lon[i] = -180
  /\ \A i \in DOMAIN lon : lon[i] < 0 => lon[i] = -180

\* C14 as amended: the same holds unless -180 is the only negative longitude
\* of the axis (it becomes 180, and an axis within [0,180] is not converted).
C14_RoundTripExceptMinus180 ==
  (lastOp = "change_longitude_range" /\ (InPm180(pre[1].lon) \/ In360(pre[1].lon))
     /\ ~OnlyNegativeIsMinus180(pre[1].lon)) =>
    RoundTrip

\* -170, 5 becomes 5, 190 and a second application gives -170, 5
C14_Witness ==
  /\ lastOp = "change_longitude_range"
  /\ pre[1].lon = <<-170, 5>>
  /\ Produced.lon = <<5, 190>>
  /\ ConvertedAgain.lon = <<-170, 5>>

(* ============== properties of repeated and copy-mode calls ============= *)
IsStrictlyAscending(s) == \A i, j \in DOMAIN s : i < j => s[i] < s[j]

IsStrictlyDescending(s) == \A i, j \in DOMAIN s : i < j => s[i] > s[j]

IsMonotonic(s) == IsStrictlyAscending(s) \/ IsStrictlyDescending(s)

\* latitude descending, longitude ascending
IsCanonical(r) == IsStrictlyDescending(r.lat) /\ IsStrictlyAscending(r.lon)

\* the same coordinates, data, dimensions and attributes
SameRaster(a, b) ==
  /\ a.lon = b.lon
  /\ a.lat = b.lat
  /\ a.data = b.data
  /\ a.dims = b.dims
  /\ a.attrs = b.attrs

\* the raster returned by one more invert_coordinates, called on the raster
\* the last call returned
InvertedAgain == invert_coordinates(ret[1], FALSE).ret[1]

\* C15: invert_coordinates returns a raster in canonical order (latitude
\* descending, longitude ascending) as it is; called on the raster it
\* returned it returns that raster again, and for a raster with monotonic
\* axes that raster is in canonical order.
C15_InvertIdempotent ==
  (lastOp = "invert_coordinates" /\ lastMode = "copy") =>
    /\ IsCanonical(pre[1]) => SameRaster(ret[1], pre[1])
    /\ SameRaster(InvertedAgain, ret[1])
    /\ (IsMonotonic(pre[1].lon) /\ IsMonotonic(pre[1].lat)) => IsCanonical(ret[1])

\* both axes inverted: the returned raster is canonical and a second call
\* returns it again
C15_Witness ==
  /\ lastOp = "invert_coordinates"
  /\ lastMode = "copy"
  /\ pre[1].lon = <<199, 5>>
  /\ pre[1].lat = <<87, 90>>
  /\ ret[1].lon = <<5, 199>>
  /\ ret[1].lat = <<90, 87>>
  /\ InvertedAgain.lon = <<5, 199>>
  /\ InvertedAgain.data = ret[1].data

\* C16: for a raster whose longitudes all lie within [0,180], in any order,
\* change_longitude_range changes nothing: the longitude coordinates and
\* their order, the data and the rest of the raster it produces are those of
\* the input, in both modes.
C16_NoOpWithin0And180 ==
  (lastOp = "change_longitude_range"
     /\ \A i \in DOMAIN pre[1].lon : 0 <= pre[1].lon[i] /\ pre[1].lon[i] <= 180) =>
    /\ err = "none"
    /\ SameRaster(Produced, pre[1])

\* the axis 180, 5, not in ascending order, is left as it is
C16_Witness ==
  /\ lastOp = "change_longitude_range"
  /\ pre[1].lon = <<180, 5>>
  /\ lastMode = "copy"
  /\ ret[1].lon = <<180, 5>>
  /\ ret[1].data = pre[1].data

\* C17: a call of set_time_dim, correct_calendar, invert_coordinates or
\* change_longitude_range in copy mode leaves the raster it was called on
\* with the coordinates, data, attributes and time dimension it had before
\* the call, whatever calls came before, and what it returns on success is
\* a raster.
C17_CopyModeLeavesReceiver ==
  (lastMode = "copy"
     /\ lastOp \in {"set_time_dim", "correct_calendar",
                    "invert_coordinates", "change_longitude_range"}) =>
    /\ obj = pre[1]
    /\ err = "none" => Len(ret) = 1

\* a copy-mode change_longitude_range that converts the axis: the returned
\* raster has the new axis, the receiver the old one
C17_Witness ==
  /\ lastOp = "change_longitude_range"
  /\ lastMode = "copy"
  /\ pre[1].lon = <<199, 5>>
  /\ ret[1].lon = <<-161, 5>>
  /\ obj.lon = <<199, 5>>
  /\ obj.declared

(* ================= properties of the statistics columns ================ *)
\* the statistics asked for: the list given, else the six defaults
Requested ==
  IF sIn.stats_list = <<>> THEN {"mean", "std", "min", "max", "sum", "count"}
  ELSE {sIn.stats_list[1][k] : k \in DOMAIN sIn.stats_list[1]}

RequestedPercentiles ==
  IF sIn.percentile_list = <<>> THEN {}
  ELSE {sIn.percentile_list[1][k] : k \in DOMAIN sIn.percentile_list[1]}

\* the same raster and call with the one combination of an N-D raster as the
\* layer of a 2D raster, and back
AsScalar(in) ==
  [in EXCEPT !.ncombo = 0, !.missing = {<<0, m[2]>> : m \in in.missing}]

AsOneCombination(in) ==
  [in EXCEPT !.ncombo = 1, !.missing = {<<1, m[2]>> : m \in in.missing}]

\* C18: every row of the result has the feature value in the column named
\* after the feature column and, besides it and the coordinates, the columns
\* <statistic>_<feature column> of the statistics asked for (the six defaults
\* when no list is given) and <p>quant_<feature column> of the percentiles
\* asked for, on the 2D and on the N-D path; a raster with one combination
\* and the 2D raster of that layer give the same columns and values.
C18_ColumnsOfEveryRow ==
  sPc = "done" =>
    \A k \in DOMAIN sResult :
      LET cols == sResult[k].cols IN
      /\ "ADM" \in DOMAIN cols
      /\ cols["ADM"] \in Overlapping
      /\ DOMAIN cols \ {"ADM"} =
            {st \o "_ADM" : st \in Requested}
              \cup {ToString(q) \o "quant_ADM" : q \in RequestedPercentiles}
      /\ sIn.ncombo = 1 =>
            cols = FeatureBlock(AsScalar(sIn), cols["ADM"], Selected(cols["ADM"]))[1].cols
      /\ sIn.ncombo = 0 =>
            cols = FeatureBlock(AsOneCombination(sIn), cols["ADM"], Selected(cols["ADM"]))[1].cols

\* an N-D raster, count and sum and the 50th percentile asked for: the rows
\* have the columns ADM, count_ADM, sum_ADM and 50quant_ADM
C18_Witness ==
  /\ sPc = "done"
  /\ sIn.ncombo = 2
  /\ sIn.percentile_list = <<<<50>>>>
  /\ Len(sResult) = 4
  /\ DOMAIN sResult[4].cols = {"ADM", "count_ADM", "sum_ADM", "50quant_ADM"}

\* a 2D raster and no list given: the six default statistics
C18_WitnessDefaults2D ==
  /\ sPc = "done"
  /\ sIn.ncombo = 0
  /\ sIn.stats_list = <<>>
  /\ DOMAIN sResult[1].cols
       = {"ADM", "mean_ADM", "std_ADM", "min_ADM", "max_ADM", "sum_ADM", "count_ADM"}

(* ================== properties of get_raster_array ===================== *)
\* spatial dimensions, a CRS and a time dimension have been set on the dataset
AllSet(ds) == ds.rio.declared /\ ds.rio.crs # "None" /\ ds.declared

\* C19: for a dataset on which set_spatial_dims, set_crs and set_time_dim have
\* set the spatial dimensions, a CRS and a time dimension, in any order,
\* get_raster_array(var) returns the array of the variable with the x
\* dimension, y dimension, CRS and time dimension of the dataset; the array
\* ds[var] does not have a time dimension declared under a name other than
\* t, T, time.
C19_ArrayKeepsWhatWasSet ==
  /\ (lastOp = "get_raster_array" /\ AllSet(obj)) =>
       /\ err = "none"
       /\ ret[1].rio.x_dim = obj.rio.x_dim
       /\ ret[1].rio.y_dim = obj.rio.y_dim
       /\ ret[1].rio.crs = obj.rio.crs
       /\ ret[1].tdim = obj.tdim
  /\ (lastOp = "getitem" /\ obj.declared /\ obj.tdim \notin {"t", "T", "time"}) =>
       ret[1].tdim # obj.tdim

(* ============ properties of the declared time dimension ================ *)
\* the time dimension the raster returned by the last call should have: the
\* one the call declared, or the one declared on the receiver
DeclaredAfter == IF lastOp = "set_time_dim" THEN lastArg ELSE pre[1].tdim

\* C20: when a time dimension is declared under a name other than t, T, time
\* on the receiver, the raster returned by a copy-mode set_time_dim,
\* correct_calendar, invert_coordinates or change_longitude_range has the
\* declared time dimension: reading its time dimension raises nothing, and
\* correct_calendar on it does not raise DimensionError.
C20_DeclaredTimeDimSurvivesCopy ==
  ( /\ lastMode = "copy" /\ err = "none"
    /\ lastOp \in {"set_time_dim", "correct_calendar", "invert_coordinates",
                   "change_longitude_range"}
    /\ pre[1].declared /\ pre[1].tdim \notin {"t", "T", "time"} ) =>
      /\ ret[1].tdim = DeclaredAfter
      /\ read_t_dim(ret[1]).err = "none"
      /\ correct_calendar(ret[1], FALSE).err # "DimensionError"

(* ============== properties of the inferred time dimension ============== *)
\* time when it is a dimension, else T, else t, else none
LastDefaultPresent(dims) ==
  IF "time" \in dims THEN "time" ELSE IF "T" \in dims THEN "T"
  ELSE IF "t" \in dims THEN "t" ELSE "None"

\* the rasters of the state: the receiver and the returned one
RastersOfState == {obj} \cup {ret[i] : i \in DOMAIN ret}

\* C21: a raster on which set_time_dim has not acted since it was wrapped has
\* as time dimension the last of t, T, time that is among its dimensions
\* (time before T before t), and none when none of them is; after a
\* set_time_dim that raised nothing the raster it produced has the declared
\* name as time dimension.
C21_InferredThenDeclared ==
  /\ \A r \in RastersOfState : ~r.declared => r.tdim = LastDefaultPresent(r.dims)
  /\ (lastOp = "set_time_dim" /\ err = "none") =>
       Produced.tdim = lastArg /\ Produced.declared

\* C21 witness: on a raster with all of t, T, time among its dimensions, with
\* time inferred, set_time_dim has declared F.
C21_Witness ==
  /\ lastOp = "set_time_dim" /\ err = "none" /\ lastArg = "F"
  /\ {"t", "T", "time"} \subseteq pre[1].dims
  /\ ~pre[1].declared /\ pre[1].tdim = "time"
  /\ Produced.tdim = "F"

\* C21 witness: a raster with t and T but not time among its dimensions has
\* T inferred, on the receiver and on the raster a copy-mode call returned.
C21_WitnessTBeforet ==
  /\ ~obj.declared
  /\ obj.dims \cap {"t", "T", "time"} = {"t", "T"} /\ obj.tdim = "T"
  /\ ret # <<>> /\ ~ret[1].declared /\ ret[1].tdim = "T"

(* ============ properties of the conversion between ranges ============== *)
Distinct(s) == \A i, j \in DOMAIN s : i # j => s[i] # s[j]

\* C22: change_longitude_range on an axis of distinct longitudes all within
\* [0,360) with maximum above 180 leaves as many longitudes, all distinct and
\* all within [-180,180); on an axis of distinct longitudes all within
\* [-180,180) with a negative minimum it leaves as many longitudes, all
\* distinct and all within [0,360).
C22_NoCollisions ==
  (lastOp = "change_longitude_range" /\ err = "none" /\ Distinct(pre[1].lon)) =>
    /\ (In360(pre[1].lon) /\ SeqMax(pre[1].lon) > 180) =>
         /\ Len(Produced.lon) = Len(pre[1].lon)
         /\ Distinct(Produced.lon)
         /\ InPm180(Produced.lon)
    /\ (InPm180(pre[1].lon) /\ SeqMin(pre[1].lon) < 0) =>
         /\ Len(Produced.lon) = Len(pre[1].lon)
         /\ Distinct(Produced.lon)
         /\ In360(Produced.lon)

\* C22 witness: 180, 199 within [0,360) has become -180, -161
C22_Witness ==
  /\ lastOp = "change_longitude_range" /\ err = "none"
  /\ pre[1].lon = <<180, 199>>
  /\ Produced.lon = <<-180, -161>>

\* C22 witness: -170, 5 within [-180,180) has become 5, 190
C22_WitnessTo360 ==
  /\ lastOp = "change_longitude_range" /\ err = "none"
  /\ lastMode = "copy"
  /\ pre[1].lon = <<5, -170>>
  /\ ret[1].lon = <<5, 190>>

====
